---- MODULE Spec2Model ----
(***************************************************************************)
(* Plant monitor backend: the alert-dispatch policy of src/server.js       *)
(* (MongoDB + SendGrid variant, lines 730-1204; the Gmail variant of lines *)
(* 348-728 has the same sendAlert and POST /api/readings but no            *)
(* /api/test-email).                                                       *)
(*                                                                         *)
(* Each HTTP request is an async handler.  It runs synchronously up to its *)
(* next await; the awaited operations (reading.save, transporter.sendMail, *)
(* Reading.countDocuments) complete in later steps, and the handlers of    *)
(* other requests may run in between.  One action of the model is one such *)
(* synchronous run.                                                        *)
(***************************************************************************)
EXTENDS Integers, FiniteSets, Sequences, TLC

\* ---------------------------------------------------------------- bounds
\* number of requests of one behaviour
MaxReq == 2
Slots == 1 .. MaxReq

\* ------------------------------------------------------------- constants
\* const ALERT_COOLDOWN = 30 * 60 * 1000; // 30 minutes
ALERT_COOLDOWN == 30 * 60 * 1000
\* const nepalOffset = 5.75 * 60 * 60 * 1000;
nepalOffset == 20700000

\* The Date.now() values (ms since a UTC midnight) a behaviour passes
\* through: 23:45 UTC = 05:30 local (night), and exactly the cooldown
\* window later = 06:00 local (day).  Both are larger than ALERT_COOLDOWN,
\* as every real Date.now() is, so the initial lastAlertTime = 0 is
\* "long ago".
Times ==
  {85500000, 85500000 + ALERT_COOLDOWN}

\* ---------------------------------------------------------------- values
\* a field that is absent from the JSON body
undefined == -1
\* the result of parseInt(undefined)
NaN == -2
NoTime == -1

\* parseInt of a JSON number, or of an absent field
parseInt(v) == IF v = undefined THEN NaN ELSE v

Conditions == {"Good", "Okay", "Bad", "undefined"}

AllBodies ==
  [deviceId : {"D1", "undefined"}, soilValue : {undefined, 2800},
   ldrValue : {undefined, 3200}, soilCondition : Conditions,
   lightCondition : Conditions]

missingFields(b) ==
  (IF b.deviceId = "undefined" THEN {"deviceId"} ELSE {})
  \cup (IF b.soilValue = undefined THEN {"soilValue"} ELSE {})
  \cup (IF b.ldrValue = undefined THEN {"ldrValue"} ELSE {})

\* The request bodies of the model: the complete bodies with every
\* combination of Good and Bad conditions, the complete body with both
\* conditions Okay, the complete body without conditions, and the bodies
\* that lack exactly one required field (with a Bad soil condition, so that
\* an alert would be due).
Bodies ==
  {b \in AllBodies :
     \/ /\ missingFields(b) = {}
        /\ (b.soilCondition = "undefined") = (b.lightCondition = "undefined")
        /\ (b.soilCondition = "Okay") = (b.lightCondition = "Okay")
     \/ /\ Cardinality(missingFields(b)) = 1
        /\ b.soilCondition = "Bad"
        /\ b.lightCondition = "Good"}

NoBody ==
  [deviceId |-> "undefined", soilValue |-> undefined, ldrValue |-> undefined,
   soilCondition |-> "undefined", lightCondition |-> "undefined"]

\* the testReading of GET /api/test-email
testReading ==
  [deviceId |-> "TEST-DEVICE", soilValue |-> 100, ldrValue |-> 50,
   soilCondition |-> "Bad", lightCondition |-> "Bad"]

\* no read request, no answer
NoCall == [fn |-> "none"]
NoResult == [fn |-> "none"]

\* ----------------------------------------------------------------- state
VARIABLES
  clock,            \* Date.now()
  emailConfigured,  \* emailConfigured && transporter
  lastAlertTime,    \* let lastAlertTime
  readings,         \* the Reading collection
  sent,             \* the messages handed to transporter.sendMail
  req,              \* the requests: position and locals of each handler
  sensorData,       \* the SensorData collection (first variant)
  lastEmailSent,    \* let lastEmailSent = { soil, light } (first variant)
  deviceStatus,     \* the DeviceStatus collection (first variant)
  call,             \* the read request or function call being answered
  result            \* its answer

\* the state of the first variant of the server and of the read endpoints,
\* which POST /api/readings and GET /api/test-email never touch
elsewhere == <<sensorData, lastEmailSent, deviceStatus, call, result>>

vars ==
  <<clock, emailConfigured, lastAlertTime, readings, sent, req, elsewhere>>

NewReq ==
  [kind |-> "none", pc |-> "new", body |-> NoBody, receivedAt |-> NoTime,
   now |-> NoTime, alert |-> "none", mail |-> "none",
   oldCooldown |-> NoTime, status |-> 0, error |-> "none",
   afterOthers |-> FALSE, lastSeen |-> NoTime, beforeRestart |-> FALSE,
   device |-> [status |-> "none", lastSeen |-> NoTime]]

Init ==
  /\ clock \in Times /\ \A t \in Times : clock <= t
  /\ emailConfigured \in BOOLEAN
  /\ lastAlertTime = 0
  /\ readings = {}
  /\ sent = {}
  /\ req = [r \in Slots |-> NewReq]
  /\ sensorData = {}
  /\ lastEmailSent = [soil |-> 0, light |-> 0]
  /\ deviceStatus = {}
  /\ call = NoCall
  /\ result = NoResult

\* --------------------------------------------------------- pure functions
getUTCHours(t) == (t \div 3600000) % 24

\* mutant: the hour is read from the UTC time, not the local time
isNightTime_UTC(t) ==
  LET hour == getUTCHours(t)
  IN  hour >= 19 \/ hour < 6

isNightTime(t) ==
  LET hour == getUTCHours(t + nepalOffset)
  IN  hour >= 19 \/ hour < 6

\* new Reading({...}) of POST /api/readings
newReading(r, b, t) ==
  [id |-> r,
   deviceId |-> b.deviceId,
   soilValue |-> parseInt(b.soilValue),
   ldrValue |-> parseInt(b.ldrValue),
   soilCondition |-> IF b.soilCondition = "undefined" THEN "Unknown"
                     ELSE b.soilCondition,
   lightCondition |-> IF b.lightCondition = "undefined" THEN "Unknown"
                      ELSE b.lightCondition,
   receivedAt |-> t]

\* readingSchema: soilValue and ldrValue are required Numbers; NaN does not
\* cast to Number, and the document then fails validation on save
validates(reading) ==
  /\ reading.deviceId # "undefined"
  /\ reading.soilValue # NaN
  /\ reading.ldrValue # NaN

\* mutant: the save resolves and the collection has not the document
saved_Lost(store, reading) == store

\* mutant: the save replaces what the collection held
saved_Overwrites(store, reading) == {reading}

\* await reading.save(): the document is inserted into the collection
saved(store, reading) == store \cup {reading}

\* mutant: the light alert is not suppressed at night
shouldSendLDRAlert_IgnoresNight(reading, t) == reading.lightCondition = "Bad"

shouldSendLDRAlert(reading, t) ==
  reading.lightCondition = "Bad" /\ ~isNightTime(t)

shouldSendSoilAlert(reading) == reading.soilCondition = "Bad"

\* mutant: the cooldown comparison includes the end of the window
cooldownActive_Inclusive(now, last) == now - last <= ALERT_COOLDOWN

\* mutant: the window ends one millisecond early
cooldownActive_OneShort(now, last) == now - last < ALERT_COOLDOWN - 1

cooldownActive(now, last) == now - last < ALERT_COOLDOWN

\* mutant: sendAlert does not look at the transporter
sendAlertOutcome_IgnoresConfig(reading, now, last, configured) ==
  IF cooldownActive(now, last) THEN "cooldown"
  ELSE IF ~shouldSendLDRAlert(reading, now) /\ ~shouldSendSoilAlert(reading)
       THEN "skip"
  ELSE "send"

\* mutant: at night nothing is sent, whatever the conditions
sendAlertOutcome_NightSkips(reading, now, last, configured) ==
  IF ~configured THEN "notConfigured"
  ELSE IF cooldownActive(now, last) THEN "cooldown"
  ELSE IF isNightTime(now) THEN "skip"
  ELSE IF ~shouldSendLDRAlert(reading, now) /\ ~shouldSendSoilAlert(reading)
       THEN "skip"
  ELSE "send"

\* sendAlert up to its await: which return it takes, or "send" when it
\* calls transporter.sendMail
sendAlertOutcome(reading, now, last, configured) ==
  IF ~configured THEN "notConfigured"
  ELSE IF cooldownActive(now, last) THEN "cooldown"
  ELSE IF ~shouldSendLDRAlert(reading, now) /\ ~shouldSendSoilAlert(reading)
       THEN "skip"
  ELSE "send"

\* mutant: a Bad light condition is named also at night
alertMessage_NamesNightLight(reading, t) ==
  IF shouldSendSoilAlert(reading) /\ reading.lightCondition = "Bad"
  THEN "both"
  ELSE IF shouldSendSoilAlert(reading) THEN "soil" ELSE "light"

alertMessage(reading, t) ==
  IF shouldSendSoilAlert(reading) /\ shouldSendLDRAlert(reading, t)
  THEN "both"
  ELSE IF shouldSendSoilAlert(reading) THEN "soil" ELSE "light"

\* mutant: sendAlert is called for every stored reading
alertNeeded_Always(b) == TRUE

\* if (soilCondition === 'Bad' || lightCondition === 'Bad')
alertNeeded(b) == b.soilCondition = "Bad" \/ b.lightCondition = "Bad"

\* the value lastAlertTime has after sendAlert's catch-or-continue, given
\* how the awaited sendMail ended
afterSendMail(outcome, now, last) ==
  IF outcome = "resolved" THEN now ELSE last

\* mutant: lastAlertTime is set in the step that passes the cooldown check
atHandOff_CheckAndSet(out, now, last) == IF out = "send" THEN now ELSE last

\* sendAlert between "const now = Date.now()" and "await
\* transporter.sendMail": the value of lastAlertTime when it suspends (it
\* assigns nothing before the await)
atHandOff(out, now, last) == last


inFlight(q) == q.pc \notin {"new", "done"}

\* a request is received
received(r, rec) == [req EXCEPT ![r] = rec]

canReceive(r) ==
  /\ req[r].pc = "new"
  /\ IF r = 1 THEN TRUE ELSE req[r - 1].pc # "new"

\* no other request is being served when r is received
othersIdle(r) == \A s \in Slots \ {r} : ~inFlight(req[s])

\* --------------------------------------------------------------- actions
\* app.post('/api/readings') up to "await reading.save()"
PostReadings(r, b) ==
  /\ canReceive(r)
  /\ IF b.deviceId = "undefined"
     THEN req' = received(r, [NewReq EXCEPT !.kind = "post", !.pc = "done",
                                !.body = b, !.status = 400,
                                !.error = "Missing deviceId",
                                !.afterOthers = othersIdle(r)])
     ELSE req' = received(r, [NewReq EXCEPT !.kind = "post", !.pc = "saving",
                                !.body = b, !.receivedAt = clock,
                                !.afterOthers = othersIdle(r)])
  /\ UNCHANGED <<clock, emailConfigured, lastAlertTime, readings, sent,
               elsewhere>>

\* reading.save() resolves; the handler goes on to the alert check and runs
\* sendAlert up to its await, or on to countDocuments
SaveOk(r) ==
  LET q == req[r]
      reading == newReading(r, q.body, q.receivedAt)
      out == sendAlertOutcome(reading, clock, lastAlertTime, emailConfigured)
  IN
  /\ q.kind = "post" /\ q.pc = "saving"
  /\ validates(reading)
  /\ readings' = saved(readings, reading)
  /\ IF ~alertNeeded(q.body)
     THEN /\ req' = [req EXCEPT ![r].pc = "counting"]
          /\ sent' = sent
     ELSE IF out = "send"
     THEN /\ req' = [req EXCEPT ![r].pc = "mailing", ![r].now = clock,
                                ![r].alert = out]
          /\ sent' = sent \cup {[req |-> r, at |-> clock,
                                 alertMessage |-> alertMessage(reading, clock)]}
     ELSE /\ req' = [req EXCEPT ![r].pc = "counting", ![r].alert = out,
                                ![r].now = IF out = "notConfigured"
                                           THEN NoTime ELSE clock]
          /\ sent' = sent
  /\ lastAlertTime' = IF alertNeeded(q.body)
                      THEN atHandOff(out, clock, lastAlertTime)
                      ELSE lastAlertTime
  /\ UNCHANGED <<clock, emailConfigured, elsewhere>>

\* reading.save() rejects (validation error, or the store failed): catch
SaveFail(r) ==
  LET q == req[r]
      reading == newReading(r, q.body, q.receivedAt)
  IN
  /\ q.kind = "post" /\ q.pc = "saving"
  /\ req' = [req EXCEPT ![r].pc = "done", ![r].status = 500,
                        ![r].error = IF validates(reading) THEN "store"
                                     ELSE "validation"]
  /\ UNCHANGED <<clock, emailConfigured, lastAlertTime, readings, sent,
               elsewhere>>

\* app.get('/api/test-email') up to the await inside sendAlert
TestEmail(r) ==
  LET out == sendAlertOutcome(testReading, clock, 0, emailConfigured)
  IN
  /\ canReceive(r)
  /\ IF ~emailConfigured
     THEN /\ req' = received(r, [NewReq EXCEPT !.kind = "test", !.pc = "done",
                                   !.status = 200,
                                   !.error = "SendGrid not configured",
                                   !.afterOthers = othersIdle(r)])
          /\ UNCHANGED <<lastAlertTime, sent>>
     ELSE IF out = "send"
     THEN /\ lastAlertTime' = 0
          /\ req' = received(r, [NewReq EXCEPT !.kind = "test",
                                   !.pc = "mailing", !.body = testReading,
                                   !.receivedAt = clock, !.now = clock,
                                   !.alert = out,
                                   !.oldCooldown = lastAlertTime,
                                   !.afterOthers = othersIdle(r)])
          /\ sent' = sent \cup {[req |-> r, at |-> clock,
                                 alertMessage |->
                                   alertMessage(testReading, clock)]}
     ELSE \* sendAlert returned at once: the cooldown is restored
          /\ lastAlertTime' = lastAlertTime
          /\ req' = received(r, [NewReq EXCEPT !.kind = "test", !.pc = "done",
                                   !.body = testReading,
                                   !.receivedAt = clock, !.now = clock,
                                   !.alert = out, !.status = 200,
                                   !.oldCooldown = lastAlertTime,
                                   !.afterOthers = othersIdle(r)])
          /\ sent' = sent
  /\ UNCHANGED <<clock, emailConfigured, readings, elsewhere>>

\* what follows the end of sendAlert in the handler of r: lastAlertTime and
\* the request record
afterSendAlert(r, outcome) ==
  LET q == req[r]
      last == afterSendMail(outcome, q.now, lastAlertTime)
  IN
  IF outcome = "rejectedNoMessage"
  THEN \* error.message.includes throws a TypeError inside the catch block:
       \* sendAlert rejects and the handler's own catch answers
       /\ lastAlertTime' = last
       /\ req' = [req EXCEPT ![r].pc = "done", ![r].mail = outcome,
                             ![r].status = IF q.kind = "post" THEN 500 ELSE 200,
                             ![r].error = "TypeError"]
  ELSE IF q.kind = "post"
  THEN /\ lastAlertTime' = last
       /\ req' = [req EXCEPT ![r].pc = "counting", ![r].mail = outcome]
  ELSE \* test-email: lastAlertTime = oldCooldown, then the answer
       /\ lastAlertTime' = q.oldCooldown
       /\ req' = [req EXCEPT ![r].pc = "done", ![r].mail = outcome,
                             ![r].status = 200]

\* transporter.sendMail resolves
MailResolve(r) ==
  /\ req[r].pc = "mailing"
  /\ afterSendAlert(r, "resolved")
  /\ UNCHANGED <<clock, emailConfigured, readings, sent, elsewhere>>

\* transporter.sendMail rejects, with an Error or with a value that has no
\* message
MailReject(r, e) ==
  /\ req[r].pc = "mailing"
  /\ e \in {"rejected", "rejectedNoMessage"}
  /\ afterSendAlert(r, e)
  /\ UNCHANGED <<clock, emailConfigured, readings, sent, elsewhere>>

\* Reading.countDocuments() resolves: 201
CountOk(r) ==
  /\ req[r].pc = "counting"
  /\ req' = [req EXCEPT ![r].pc = "done", ![r].status = 201]
  /\ UNCHANGED <<clock, emailConfigured, lastAlertTime, readings, sent,
               elsewhere>>

\* Reading.countDocuments() rejects: catch, 500
CountFail(r) ==
  /\ req[r].pc = "counting"
  /\ req' = [req EXCEPT ![r].pc = "done", ![r].status = 500,
                        ![r].error = "store"]
  /\ UNCHANGED <<clock, emailConfigured, lastAlertTime, readings, sent,
               elsewhere>>

\* time passes
Tick(t) ==
  /\ t > clock
  /\ clock' = t
  /\ UNCHANGED <<emailConfigured, lastAlertTime, readings, sent, req,
               elsewhere>>

Next ==
  \/ \E r \in Slots, b \in Bodies : PostReadings(r, b)
  \/ \E r \in Slots : SaveOk(r)
  \/ \E r \in Slots : SaveFail(r)
  \/ \E r \in Slots : TestEmail(r)
  \/ \E r \in Slots : MailResolve(r)
  \/ \E r \in Slots, e \in {"rejected", "rejectedNoMessage"} : MailReject(r, e)
  \/ \E r \in Slots : CountOk(r)
  \/ \E r \in Slots : CountFail(r)
  \/ \E t \in Times : Tick(t)

Spec == Init /\ [][Next]_vars

\* The store answers every save and every count, and a handler that can run
\* does run; nothing makes the mail service answer.
FairSpec ==
  /\ Spec
  /\ \A r \in Slots : WF_vars(SaveOk(r) \/ SaveFail(r))
  /\ \A r \in Slots : WF_vars(CountOk(r) \/ CountFail(r))

TypeOK ==
  /\ clock \in Nat
  /\ emailConfigured \in BOOLEAN
  /\ lastAlertTime \in Nat
  /\ \A r \in Slots :
       req[r].pc \in {"new", "saving", "mailing", "counting", "done"}

\* ================================================== the first variant
\* src/server.js lines 1-347: POST /api/sensor-data with the SensorData and
\* DeviceStatus collections and one cooldown per kind of alert.

\* const EMAIL_COOLDOWN = 5 * 60 * 1000;
EMAIL_COOLDOWN == 5 * 60 * 1000

\* JavaScript truthiness of a numeric field and of a string field
truthy(v) == v \notin {undefined, NaN, 0}
truthyString(v) == v # "undefined"

\* The request bodies of the first variant: complete bodies, a body without
\* deviceId, a body whose soilValue is 0, a body without soilCondition and a
\* body without soilValue.
SensorBodies ==
  {b \in [deviceId : {"D1", "undefined"}, soilValue : {undefined, 0, 2800},
          ldrValue : {3200}, soilCondition : {"Good", "Bad", "undefined"},
          lightCondition : {"Good", "Bad"}] :
     \/ /\ b.deviceId = "D1" /\ b.soilValue = 2800
        /\ b.soilCondition # "undefined"
     \/ /\ b.soilCondition = "Bad" /\ b.lightCondition = "Good"
        /\ (b.deviceId = "D1") # (b.soilValue = 2800)
     \/ /\ b.deviceId = "D1" /\ b.soilValue = 2800
        /\ b.soilCondition = "undefined" /\ b.lightCondition = "Bad"}

\* if (!soilValue || !ldrValue || !soilCondition || !lightCondition)
sensorDataMissing(b) ==
  \/ ~truthy(b.soilValue) \/ ~truthy(b.ldrValue)
  \/ ~truthyString(b.soilCondition) \/ ~truthyString(b.lightCondition)

\* new SensorData({ deviceId: deviceId || 'ESP32_001', ... })
newSensorData(r, b, t) ==
  [id |-> r,
   deviceId |-> IF truthyString(b.deviceId) THEN b.deviceId ELSE "ESP32_001",
   soilValue |-> b.soilValue, ldrValue |-> b.ldrValue,
   soilCondition |-> b.soilCondition, lightCondition |-> b.lightCondition,
   timestamp |-> t]

\* sensorDataSchema: required Numbers, conditions of the enum
sensorDataValidates(doc) ==
  /\ doc.soilValue \notin {undefined, NaN}
  /\ doc.ldrValue \notin {undefined, NaN}
  /\ doc.soilCondition \in {"Good", "Okay", "Bad"}
  /\ doc.lightCondition \in {"Good", "Okay", "Bad"}

\* sendAlert(type, ...): if (now - lastEmailSent[type] < EMAIL_COOLDOWN)
emailCooldownActive(now, last) == now - last < EMAIL_COOLDOWN

\* mutant: one timestamp for both kinds of alert
markSent_Both(les, type, now) == [soil |-> now, light |-> now]

\* lastEmailSent[type] = now;
markSent(les, type, now) == [les EXCEPT ![type] = now]

\* DeviceStatus.findOneAndUpdate({deviceId}, {status, lastSeen}, {upsert})
upserted(ds, id, t) ==
  {d \in ds : d.deviceId # id}
  \cup {[deviceId |-> id, status |-> "online", lastSeen |-> t]}

isSensor(r) == req[r].kind = "sensor"

\* the handler of r from "if (lightCondition === 'Bad')" on: it runs
\* sendAlert('light') up to its await, or answers
fromLightCheck(r, rec, les) ==
  IF rec.body.lightCondition = "Bad"
     /\ ~emailCooldownActive(clock, les.light)
  THEN /\ req' = [req EXCEPT ![r] = [rec EXCEPT !.pc = "mailingLight",
                                                !.now = clock]]
       /\ sent' = sent \cup {[req |-> r, at |-> clock,
                              alertMessage |-> "light"]}
  ELSE /\ req' = [req EXCEPT ![r] = [rec EXCEPT !.pc = "done",
                                                !.status = 200]]
       /\ sent' = sent

\* app.post('/api/sensor-data') up to "await sensorData.save()"
PostSensorData(r, b) ==
  /\ canReceive(r)
  /\ IF sensorDataMissing(b)
     THEN req' = received(r, [NewReq EXCEPT !.kind = "sensor", !.pc = "done",
                                !.body = b, !.status = 400,
                                !.error = "Missing required fields",
                                !.afterOthers = othersIdle(r)])
     ELSE req' = received(r, [NewReq EXCEPT !.kind = "sensor",
                                !.pc = "saving", !.body = b,
                                !.receivedAt = clock,
                                !.afterOthers = othersIdle(r)])
  /\ UNCHANGED <<clock, emailConfigured, lastAlertTime, readings, sent,
                 elsewhere>>

\* sensorData.save() resolves; the handler issues the DeviceStatus update
SensorSaveOk(r) ==
  LET q == req[r]
      doc == newSensorData(r, q.body, q.receivedAt)
  IN
  /\ isSensor(r) /\ q.pc = "saving"
  /\ sensorDataValidates(doc)
  /\ sensorData' = sensorData \cup {doc}
  /\ req' = [req EXCEPT ![r].pc = "updating", ![r].lastSeen = clock]
  /\ UNCHANGED <<clock, emailConfigured, lastAlertTime, readings, sent,
                 lastEmailSent, deviceStatus, call, result>>

\* sensorData.save() rejects: catch, 500
SensorSaveFail(r) ==
  /\ isSensor(r) /\ req[r].pc = "saving"
  /\ req' = [req EXCEPT ![r].pc = "done", ![r].status = 500,
                        ![r].error = "store"]
  /\ UNCHANGED <<clock, emailConfigured, lastAlertTime, readings, sent,
                 elsewhere>>

\* findOneAndUpdate resolves; the handler goes on to the alert checks and
\* runs sendAlert('soil') or sendAlert('light') up to its await, or answers
StatusUpdateOk(r) ==
  LET q == req[r]
      doc == newSensorData(r, q.body, q.receivedAt)
  IN
  /\ isSensor(r) /\ q.pc = "updating"
  /\ deviceStatus' = upserted(deviceStatus, doc.deviceId, q.lastSeen)
  /\ IF q.body.soilCondition = "Bad"
        /\ ~emailCooldownActive(clock, lastEmailSent.soil)
     THEN /\ req' = [req EXCEPT ![r].pc = "mailingSoil", ![r].now = clock]
          /\ sent' = sent \cup {[req |-> r, at |-> clock,
                                 alertMessage |-> "soil"]}
     ELSE fromLightCheck(r, q, lastEmailSent)
  /\ UNCHANGED <<clock, emailConfigured, lastAlertTime, readings,
                 sensorData, lastEmailSent, call, result>>

\* findOneAndUpdate rejects: catch, 500
StatusUpdateFail(r) ==
  /\ isSensor(r) /\ req[r].pc = "updating"
  /\ req' = [req EXCEPT ![r].pc = "done", ![r].status = 500,
                        ![r].error = "store"]
  /\ UNCHANGED <<clock, emailConfigured, lastAlertTime, readings, sent,
                 elsewhere>>

\* the sendMail of sendAlert('soil') resolves or rejects; the handler goes
\* on to the light check
SoilMailEnds(r, outcome) ==
  LET q == req[r]
      les == IF outcome = "resolved"
             THEN markSent(lastEmailSent, "soil", q.now)
             ELSE lastEmailSent
  IN
  /\ isSensor(r) /\ q.pc = "mailingSoil"
  /\ lastEmailSent' = les
  /\ fromLightCheck(r, [q EXCEPT !.mail = outcome], les)
  /\ UNCHANGED <<clock, emailConfigured, lastAlertTime, readings,
                 sensorData, deviceStatus, call, result>>

\* the sendMail of sendAlert('light') resolves or rejects; the answer
LightMailEnds(r, outcome) ==
  LET q == req[r]
  IN
  /\ isSensor(r) /\ q.pc = "mailingLight"
  /\ lastEmailSent' = IF outcome = "resolved"
                      THEN markSent(lastEmailSent, "light", q.now)
                      ELSE lastEmailSent
  /\ req' = [req EXCEPT ![r].pc = "done", ![r].mail = outcome,
                        ![r].status = 200]
  /\ UNCHANGED <<clock, emailConfigured, lastAlertTime, readings, sent,
                 sensorData, deviceStatus, call, result>>

\* the first variant always creates its transporter
SensorInit == Init /\ emailConfigured

SensorNext ==
  \/ \E r \in Slots, b \in SensorBodies : PostSensorData(r, b)
  \/ \E r \in Slots : SensorSaveOk(r)
  \/ \E r \in Slots : SensorSaveFail(r)
  \/ \E r \in Slots : StatusUpdateOk(r)
  \/ \E r \in Slots : StatusUpdateFail(r)
  \/ \E r \in Slots, o \in {"resolved", "rejected"} : SoilMailEnds(r, o)
  \/ \E r \in Slots, o \in {"resolved", "rejected"} : LightMailEnds(r, o)
  \/ \E t \in Times : Tick(t)

SensorSpec == SensorInit /\ [][SensorNext]_vars

\* ============================================== the read endpoints
\* GET /api/sensor-data and GET /api/readings/latest answer from the Reading
\* collection and the clock; isNightTime answers from the clock alone.

\* bounds: the readings of a store, and the days isNightTime is called over
MaxStored == 3
MaxDays == 2

\* const threeMinutes = 3 * 60 * 1000;
threeMinutes == 3 * 60 * 1000

\* the time of the newest reading of the stores, and one minute before it
LastSeenAt == 85500000
ReceivedTimes == {LastSeenAt - 60000, LastSeenAt}

\* the instants at which the read endpoints are called
ReadTimes ==
  {LastSeenAt + d : d \in {0, 179000, 179999, 180000, 181000}}

Devices == {"D1", "D2"}

\* the readings a store may hold: one per device and time of receipt
StoredReadings ==
  {newReading((IF d = "D1" THEN 1 ELSE 2) + (IF t = LastSeenAt THEN 2 ELSE 0),
              [deviceId |-> d, soilValue |-> 2800, ldrValue |-> 3200,
               soilCondition |-> "Good", lightCondition |-> "Good"], t) :
     d \in Devices, t \in ReceivedTimes}

Stores == {st \in SUBSET StoredReadings : Cardinality(st) <= MaxStored}

\* the instants isNightTime is called at: the first and the last
\* millisecond of every UTC minute of MaxDays days
NightTimes ==
  {m * 60000 + ms : m \in 0 .. (MaxDays * 1440 - 1), ms \in {0, 59999}}

\* mutant: the query ignores deviceId
matching_AnyDevice(store, deviceId) == store

\* const query = deviceId ? { deviceId } : {};  Reading.find(query)
matching(store, deviceId) ==
  {x \in store : deviceId = "undefined" \/ x.deviceId = deviceId}

\* .sort({ receivedAt: -1 }): the documents that may come first
newest(found) == {x \in found : \A y \in found : y.receivedAt <= x.receivedAt}

\* mutant: a reading exactly threeMinutes old still counts as Connected
deviceStatusAt_Inclusive(now, receivedAt) ==
  IF now - receivedAt <= threeMinutes THEN "Connected" ELSE "Disconnected"

\* timeSinceLastReading < threeMinutes ? 'Connected' : 'Disconnected'
deviceStatusAt(now, receivedAt) ==
  IF now - receivedAt < threeMinutes THEN "Connected" ELSE "Disconnected"

\* app.get('/api/sensor-data'): the find resolves and the handler answers
GetSensorData ==
  LET found == matching(readings, call.deviceId)
  IN
  /\ call.fn = "sensor-data" /\ result = NoResult
  /\ IF found = {}
     THEN result' = [fn |-> call.fn, status |-> 200, count |-> 0,
                     deviceStatus |-> "Disconnected", latest |-> "null"]
     ELSE \E x \in newest(found) :
            result' = [fn |-> call.fn, status |-> 200,
                       count |-> Cardinality(found),
                       deviceStatus |-> deviceStatusAt(clock, x.receivedAt),
                       latest |-> x]
  /\ UNCHANGED <<clock, emailConfigured, lastAlertTime, readings, sent, req,
                 sensorData, lastEmailSent, deviceStatus, call>>

\* app.get('/api/readings/latest'): the findOne resolves and the handler
\* answers
GetLatest ==
  LET found == matching(readings, call.deviceId)
  IN
  /\ call.fn = "latest" /\ result = NoResult
  /\ IF found = {}
     THEN result' = [fn |-> call.fn, status |-> 404]
     ELSE \E x \in newest(found) :
            result' = [fn |-> call.fn, status |-> 200, reading |-> x,
                       deviceStatus |-> deviceStatusAt(clock, x.receivedAt)]
  /\ UNCHANGED <<clock, emailConfigured, lastAlertTime, readings, sent, req,
                 sensorData, lastEmailSent, deviceStatus, call>>

\* the find or findOne of a read endpoint rejects: catch, 500
ReadFail ==
  /\ call.fn \in {"sensor-data", "latest"} /\ result = NoResult
  /\ result' = [fn |-> call.fn, status |-> 500]
  /\ UNCHANGED <<clock, emailConfigured, lastAlertTime, readings, sent, req,
                 sensorData, lastEmailSent, deviceStatus, call>>

\* isNightTime() returns
CallIsNightTime ==
  /\ call.fn = "isNightTime" /\ result = NoResult
  /\ result' = [fn |-> call.fn, night |-> isNightTime(clock)]
  /\ UNCHANGED <<clock, emailConfigured, lastAlertTime, readings, sent, req,
                 sensorData, lastEmailSent, deviceStatus, call>>

\* a store, an instant and a call
CallInit ==
  /\ emailConfigured = TRUE
  /\ lastAlertTime = 0
  /\ sent = {}
  /\ req = [r \in Slots |-> NewReq]
  /\ sensorData = {}
  /\ lastEmailSent = [soil |-> 0, light |-> 0]
  /\ deviceStatus = {}
  /\ result = NoResult
  /\ \/ /\ readings \in Stores
        /\ clock \in ReadTimes
        /\ call \in [fn : {"sensor-data", "latest"},
                     deviceId : Devices \cup {"undefined"}]
     \/ /\ readings = {}
        /\ clock \in NightTimes
        /\ call = [fn |-> "isNightTime"]

CallNext ==
  \/ GetSensorData
  \/ GetLatest
  \/ ReadFail
  \/ CallIsNightTime

CallSpec == CallInit /\ [][CallNext]_vars

\* =========================================== the cooldown boundary
\* POST /api/readings with alert-eligible readings only, at instants one
\* millisecond short of the cooldown window apart and the window apart.

\* 05:30 local, 05:59:59.999 local and 06:00 local
BoundaryTimes == Times \cup {85500000 + ALERT_COOLDOWN - 1}

\* the complete bodies with exactly one Bad condition, the other Good
BadBodies ==
  {b \in Bodies :
     /\ missingFields(b) = {}
     /\ {b.soilCondition, b.lightCondition} = {"Good", "Bad"}}

BoundaryNext ==
  \/ \E r \in Slots, b \in BadBodies : PostReadings(r, b)
  \/ \E r \in Slots : SaveOk(r)
  \/ \E r \in Slots : SaveFail(r)
  \/ \E r \in Slots : MailResolve(r)
  \/ \E r \in Slots : MailReject(r, "rejected")
  \/ \E r \in Slots : CountOk(r)
  \/ \E r \in Slots : CountFail(r)
  \/ \E t \in BoundaryTimes : Tick(t)

BoundarySpec == Init /\ [][BoundaryNext]_vars

\* ================================================ process restart
\* The process stops and starts again: the module is initialised anew, the
\* handlers that were suspended are gone with their connections, and the
\* collections and the mails already handed over remain.

\* mutant: the cooldown state survives the restart
lastAlertTimeAtStart_Persisted(previous) == previous

\* let lastAlertTime = 0;
lastAlertTimeAtStart(previous) == 0

Restart ==
  /\ lastAlertTime' = lastAlertTimeAtStart(lastAlertTime)
  /\ req' = [r \in Slots |->
               IF req[r].pc = "new" THEN req[r]
               ELSE [req[r] EXCEPT !.beforeRestart = TRUE, !.pc = "done",
                                   !.error = IF inFlight(req[r])
                                             THEN "restart" ELSE @]]
  /\ UNCHANGED <<clock, emailConfigured, readings, sent, elsewhere>>

RestartNext ==
  \/ \E r \in Slots, b \in BadBodies : PostReadings(r, b)
  \/ \E r \in Slots : SaveOk(r)
  \/ \E r \in Slots : SaveFail(r)
  \/ \E r \in Slots : MailResolve(r)
  \/ \E r \in Slots : MailReject(r, "rejected")
  \/ \E r \in Slots : CountOk(r)
  \/ \E r \in Slots : CountFail(r)
  \/ \E t \in Times : Tick(t)
  \/ Restart

RestartSpec == Init /\ [][RestartNext]_vars

\* ================================================= device status
\* The first variant stores the status of a device: POST /api/sensor-data
\* sets it online, GET /api/device/status and a task run every 30 seconds
\* set it offline once lastSeen is more than 30 seconds old.

\* Date.now() - 30000
thirtySeconds == 30000

\* the instants of these behaviours: a start, 30 s later, 30.001 s later
StatusTimes ==
  {85500000, 85500000 + thirtySeconds, 85500000 + thirtySeconds + 1}

\* a complete body without Bad condition
quietBody ==
  [deviceId |-> "D1", soilValue |-> 2800, ldrValue |-> 3200,
   soilCondition |-> "Good", lightCondition |-> "Good"]

\* req.query.deviceId || 'ESP32_001'
queriedDevice(d) == IF truthyString(d) THEN d ELSE "ESP32_001"

\* mutant: a device counts as seen for a full minute
stale_OneMinute(lastSeen, now) == lastSeen < now - 2 * thirtySeconds

\* device.lastSeen < thirtySecondsAgo, lastSeen: { $lt: thirtySecondsAgo }
stale(lastSeen, now) == lastSeen < now - thirtySeconds

isStatus(r) == req[r].kind = "status"

\* app.get('/api/device/status') up to "await DeviceStatus.findOne"
GetDeviceStatus(r, d) ==
  /\ canReceive(r)
  /\ req' = received(r, [NewReq EXCEPT !.kind = "status", !.pc = "finding",
                           !.body = [NoBody EXCEPT
                                       !.deviceId = queriedDevice(d)],
                           !.receivedAt = clock,
                           !.afterOthers = othersIdle(r)])
  /\ UNCHANGED <<clock, emailConfigured, lastAlertTime, readings, sent,
                 elsewhere>>

\* findOne resolves: the handler creates the record, or marks it offline and
\* saves it, or answers with the status it found
StatusFound(r) ==
  LET q == req[r]
      found == {x \in deviceStatus : x.deviceId = q.body.deviceId}
  IN
  /\ isStatus(r) /\ q.pc = "finding"
  /\ IF found = {}
     THEN req' = [req EXCEPT ![r].pc = "creating",
                             ![r].device = [status |-> "offline",
                                            lastSeen |-> clock]]
     ELSE \E x \in found :
            IF stale(x.lastSeen, clock) /\ x.status = "online"
            THEN req' = [req EXCEPT ![r].pc = "savingStatus",
                                    ![r].device = [status |-> "offline",
                                                   lastSeen |-> x.lastSeen]]
            ELSE req' = [req EXCEPT ![r].pc = "done", ![r].status = 200,
                                    ![r].now = clock,
                                    ![r].device = [status |-> x.status,
                                                   lastSeen |-> x.lastSeen]]
  /\ UNCHANGED <<clock, emailConfigured, lastAlertTime, readings, sent,
                 elsewhere>>

\* DeviceStatus.create resolves, or rejects because a record of the device
\* was inserted meanwhile (deviceId is unique)
StatusCreated(r) ==
  LET q == req[r]
      present == \E x \in deviceStatus : x.deviceId = q.body.deviceId
  IN
  /\ isStatus(r) /\ q.pc = "creating"
  /\ IF present
     THEN /\ req' = [req EXCEPT ![r].pc = "done", ![r].status = 500,
                                ![r].error = "store"]
          /\ deviceStatus' = deviceStatus
     ELSE /\ req' = [req EXCEPT ![r].pc = "done", ![r].status = 200,
                                ![r].now = clock]
          /\ deviceStatus' =
               deviceStatus \cup {[deviceId |-> q.body.deviceId,
                                   status |-> q.device.status,
                                   lastSeen |-> q.device.lastSeen]}
  /\ UNCHANGED <<clock, emailConfigured, lastAlertTime, readings, sent,
                 sensorData, lastEmailSent, call, result>>

\* device.save() resolves: the status of the record is offline
StatusSaved(r) ==
  LET q == req[r]
  IN
  /\ isStatus(r) /\ q.pc = "savingStatus"
  /\ deviceStatus' = {IF x.deviceId = q.body.deviceId
                      THEN [x EXCEPT !.status = q.device.status] ELSE x :
                        x \in deviceStatus}
  /\ req' = [req EXCEPT ![r].pc = "done", ![r].status = 200,
                        ![r].now = clock]
  /\ UNCHANGED <<clock, emailConfigured, lastAlertTime, readings, sent,
                 sensorData, lastEmailSent, call, result>>

\* findOne, create or save rejects: catch, 500
StatusFail(r) ==
  /\ isStatus(r) /\ req[r].pc \in {"finding", "creating", "savingStatus"}
  /\ req' = [req EXCEPT ![r].pc = "done", ![r].status = 500,
                        ![r].error = "store"]
  /\ UNCHANGED <<clock, emailConfigured, lastAlertTime, readings, sent,
                 elsewhere>>

\* setInterval: the task runs up to "await DeviceStatus.updateMany"
IntervalFires ==
  /\ call = NoCall
  /\ call' = [fn |-> "updateMany", thirtySecondsAgo |-> clock - thirtySeconds]
  /\ UNCHANGED <<clock, emailConfigured, lastAlertTime, readings, sent, req,
                 sensorData, lastEmailSent, deviceStatus, result>>

\* updateMany resolves: the online records last seen before
\* thirtySecondsAgo are offline
IntervalUpdated ==
  /\ call.fn = "updateMany"
  /\ deviceStatus' =
       {IF stale(x.lastSeen, call.thirtySecondsAgo + thirtySeconds)
           /\ x.status = "online"
        THEN [x EXCEPT !.status = "offline"] ELSE x : x \in deviceStatus}
  /\ call' = NoCall
  /\ UNCHANGED <<clock, emailConfigured, lastAlertTime, readings, sent, req,
                 sensorData, lastEmailSent, result>>

\* updateMany rejects: the error is logged
IntervalFailed ==
  /\ call.fn = "updateMany"
  /\ call' = NoCall
  /\ UNCHANGED <<clock, emailConfigured, lastAlertTime, readings, sent, req,
                 sensorData, lastEmailSent, deviceStatus, result>>

StatusNext ==
  \/ \E r \in Slots : PostSensorData(r, quietBody)
  \/ \E r \in Slots : SensorSaveOk(r)
  \/ \E r \in Slots : SensorSaveFail(r)
  \/ \E r \in Slots : StatusUpdateOk(r)
  \/ \E r \in Slots : StatusUpdateFail(r)
  \/ \E r \in Slots : GetDeviceStatus(r, quietBody.deviceId)
  \/ \E r \in Slots : StatusFound(r)
  \/ \E r \in Slots : StatusCreated(r)
  \/ \E r \in Slots : StatusSaved(r)
  \/ \E r \in Slots : StatusFail(r)
  \/ IntervalFires
  \/ IntervalUpdated
  \/ IntervalFailed
  \/ \E t \in StatusTimes : Tick(t)

StatusSpec == SensorInit /\ [][StatusNext]_vars

\* Time passes, the task fires again and again, the store answers every
\* operation, and the store does not reject the task's update for ever.
StatusFairSpec ==
  /\ StatusSpec
  /\ WF_vars(\E t \in StatusTimes : Tick(t))
  /\ WF_vars(IntervalFires)
  /\ WF_vars(IntervalUpdated \/ IntervalFailed)
  /\ SF_vars(IntervalUpdated)

\* ------------------------------------------------- vocabulary of the claims
isPost(r) == req[r].kind = "post"

\* the reading of request r is in the store
stored(r) == \E x \in readings : x.id = r

\* the messages request r handed to transporter.sendMail
handOffs(r) == {m \in sent : m.req = r}
handed(r) == handOffs(r) # {}

\* the step in which the save of r resolves: the handler takes the alert
\* decision at the time clock, with the cooldown state lastAlertTime
decides(r) ==
  /\ isPost(r)
  /\ req[r].pc = "saving"
  /\ req'[r].pc \in {"mailing", "counting"}

\* the step in which r hands a message to the dispatcher
handsOver(r) == ~handed(r) /\ handed(r)'

\* the step in which the sendMail awaited by r ends, either way
mailEnds(r) == req[r].pc = "mailing" /\ req'[r].pc # "mailing"

\* the step in which the sendAlert called for reading r returns to the
\* handler, the mail sent or its error logged
sendAlertReturns(r) ==
  isPost(r) /\ req[r].pc = "mailing" /\ req'[r].pc = "counting"

onlyLightBad(b) == b.lightCondition = "Bad" /\ b.soilCondition # "Bad"

\* Bad soil, or Bad light by day
eligibleAt(b, t) ==
  b.soilCondition = "Bad" \/ (b.lightCondition = "Bad" /\ ~isNightTime(t))

cooldownElapsed == clock - lastAlertTime >= ALERT_COOLDOWN

noTestRequest == \A r \in Slots : req[r].kind # "test"

\* ------------------------------------------------------------------- C1
\* C1: a valid reading with soilCondition = Bad whose alert decision is
\* taken with the cooldown window elapsed (and the mail service configured)
\* hands exactly one message to the dispatcher, and when its sendAlert
\* returns lastAlertTime equals the now of that decision.
C1_SoilBadDispatchesAndAdvances ==
  [][\A r \in Slots :
       /\ ( /\ decides(r)
            /\ req[r].body.soilCondition = "Bad"
            /\ emailConfigured
            /\ cooldownElapsed )
          => /\ handsOver(r)
             /\ Cardinality(handOffs(r)') = 1
       /\ ( /\ req[r].body.soilCondition = "Bad"
            /\ sendAlertReturns(r) )
          => lastAlertTime' = req[r].now]_vars

\* ------------------------------------------------------------------- C2
\* C2: a reading whose only Bad condition is lightCondition and whose alert
\* decision is taken at night (local time in [19:00, 06:00)) hands nothing
\* to the dispatcher and leaves lastAlertTime unchanged, whatever the
\* cooldown state: the deciding step changes neither, the request goes on to
\* its answer without awaiting a mail, and it is never among the hand-offs.
C2_NightLightOnlySuppressed ==
  /\ [][\A r \in Slots :
          ( /\ decides(r)
            /\ onlyLightBad(req[r].body)
            /\ isNightTime(clock) )
          => /\ sent' = sent
             /\ lastAlertTime' = lastAlertTime
             /\ req'[r].pc = "counting"]_vars
  /\ [](\A r \in Slots :
          ( /\ isPost(r)
            /\ onlyLightBad(req[r].body)
            /\ req[r].now # NoTime
            /\ isNightTime(req[r].now) )
          => ~handed(r) /\ req[r].mail = "none")

\* a light-only Bad reading decided at night with the cooldown elapsed was
\* answered 201, is stored, and no message was handed over
C2_Witness ==
  \E r \in Slots :
    /\ isPost(r) /\ req[r].pc = "done" /\ req[r].status = 201
    /\ onlyLightBad(req[r].body)
    /\ req[r].alert = "skip"
    /\ isNightTime(req[r].now)
    /\ stored(r)
    /\ ~handed(r)

\* ------------------------------------------------------------------- C3
\* C3 as stated: a reading whose only Bad condition is lightCondition and
\* whose alert decision is taken by day hands a message to the dispatcher
\* if and only if the cooldown window has elapsed.
C3_Original ==
  [][\A r \in Slots :
       ( /\ decides(r)
         /\ onlyLightBad(req[r].body)
         /\ ~isNightTime(clock) )
       => (handsOver(r) <=> cooldownElapsed)]_vars

\* C3 as amended: ... if and only if the mail service is configured and the
\* cooldown window has elapsed.
C3_DayLightOnlySubjectToCooldown ==
  [][\A r \in Slots :
       ( /\ decides(r)
         /\ onlyLightBad(req[r].body)
         /\ ~isNightTime(clock) )
       => (handsOver(r) <=> (emailConfigured /\ cooldownElapsed))]_vars

\* two light-only Bad readings decided by day: one handed over, the other
\* suppressed by the cooldown
C3_Witness ==
  \E r1, r2 \in Slots :
    /\ isPost(r1) /\ isPost(r2)
    /\ onlyLightBad(req[r1].body) /\ onlyLightBad(req[r2].body)
    /\ req[r1].alert = "send" /\ ~isNightTime(req[r1].now) /\ handed(r1)
    /\ req[r2].alert = "cooldown" /\ ~isNightTime(req[r2].now) /\ ~handed(r2)

\* ------------------------------------------------------------------- C4
\* C4: of two consecutive alert-eligible Bad readings, processed one after
\* the other with no other request in between, the first handed over
\* (no alert inside the cooldown window before it) and the second decided
\* less than the cooldown window later, only the first is handed to the
\* dispatcher, whatever the outcome of that hand-off.
C4_OneNotificationPerWindow ==
  \A r1, r2 \in Slots :
    ( /\ r2 = r1 + 1
      /\ isPost(r1) /\ isPost(r2)
      /\ req[r1].afterOthers /\ req[r2].afterOthers
      /\ handed(r1) /\ req[r1].status = 201
      /\ req[r2].now # NoTime
      /\ eligibleAt(req[r2].body, req[r2].now)
      /\ req[r2].now - req[r1].now < ALERT_COOLDOWN )
    => ~handed(r2)

\* ------------------------------------------------------------------- C5
\* C5: when the sendMail of a valid reading rejects, with whatever value,
\* the error does not leave sendAlert: the reading is stored and the request
\* is answered 201 (unless the later count of readings fails).
C5_DispatchFailureNeverFailsIngestion ==
  \A r \in Slots :
    (isPost(r) /\ req[r].mail \in {"rejected", "rejectedNoMessage"})
    => /\ stored(r)
       /\ req[r].pc = "done" => (req[r].status = 201 \/ req[r].error = "store")

\* ------------------------------------------------------------------- C6
\* C6: the cooldown is consumed on attempt: once the sendMail of a reading
\* has ended, resolved or rejected with an Error, lastAlertTime is at least
\* the now of that hand-off (no test email being involved).
C6_CooldownConsumedOnAttempt ==
  \A r \in Slots :
    ( /\ noTestRequest
      /\ isPost(r) /\ handed(r)
      /\ req[r].mail \in {"resolved", "rejected"} )
    => lastAlertTime >= req[r].now

\* ------------------------------------------------------------------- C7
\* C7: lastAlertTime changes only in the step in which the sendAlert of a
\* reading returns after a hand-off, and every such return sets it to the
\* now of that hand-off; no other step of any endpoint changes it.
C7_OneMutationPerDispatch ==
  [][/\ lastAlertTime' # lastAlertTime
        => \E r \in Slots :
             sendAlertReturns(r) /\ lastAlertTime' = req[r].now
     /\ \A r \in Slots :
          sendAlertReturns(r) => lastAlertTime' = req[r].now]_vars

\* ------------------------------------------------------------------- C8
\* C8: the cooldown check and the update of lastAlertTime are not one step:
\* the step in which a reading passes the check and hands its message to
\* the dispatcher leaves lastAlertTime as it was and suspends the handler at
\* the awaited sendMail, so a second request can pass the check meanwhile.
C8_CheckThenSet ==
  [][\A r \in Slots :
       (handsOver(r) /\ req'[r].kind = "post")
       => /\ lastAlertTime' = lastAlertTime
          /\ req'[r].pc = "mailing"
          /\ req'[r].now - lastAlertTime' >= ALERT_COOLDOWN]_vars

\* two readings have both passed the cooldown check and both messages are
\* with the dispatcher, less than the cooldown window apart, before either
\* has updated lastAlertTime
C8_Witness ==
  \E r1, r2 \in Slots :
    /\ r1 # r2
    /\ noTestRequest
    /\ req[r1].pc = "mailing" /\ req[r2].pc = "mailing"
    /\ handed(r1) /\ handed(r2)
    /\ req[r2].now >= req[r1].now
    /\ req[r2].now - req[r1].now < ALERT_COOLDOWN
    /\ lastAlertTime = 0

\* ------------------------------------------------------------------- C9
\* C9: every request whose reading is stored is eventually answered, also
\* when the mail service never ends a sendMail.
C9_IngestionNeverBlocked ==
  \A r \in Slots : (isPost(r) /\ stored(r)) ~> (req[r].status # 0)

\* ------------------------------------------------------------------ C10
\* C10: a submission that lacks deviceId, soilValue or ldrValue is answered
\* 400 and nothing has changed: no reading of it is stored, no alert was
\* considered for it and nothing was handed to the dispatcher.
C10_MissingFieldRejected400 ==
  \A r \in Slots :
    (isPost(r) /\ req[r].pc = "done" /\ missingFields(req[r].body) # {})
    => /\ req[r].status = 400
       /\ ~stored(r)
       /\ req[r].alert = "none"
       /\ ~handed(r)

\* ------------------------------------------------------------------ C11
\* the documents request r has in the Reading or SensorData collection
persisted(r) == {x \in readings \cup sensorData : x.id = r}

\* C11: every persisted reading has a deviceId and both sensor values as
\* numbers, and no submission that lacks one of them is ever persisted.
C11_OnlyCompleteSubmissionsPersisted ==
  /\ \A x \in readings \cup sensorData :
       /\ x.deviceId # "undefined"
       /\ x.soilValue \in Nat
       /\ x.ldrValue \in Nat
  /\ \A r \in Slots :
       missingFields(req[r].body) # {} => persisted(r) = {}

\* ------------------------------------------------------------------ C12
\* C12: a submission answered 500 because a store operation failed (the
\* save, the device-status update or the count) has left nothing behind: no
\* document of it is stored and nothing was handed to the dispatcher for it.
C12_StoreFailureLeavesNothing ==
  \A r \in Slots :
    (req[r].pc = "done" /\ req[r].status = 500 /\ req[r].error = "store")
    => /\ persisted(r) = {}
       /\ ~handed(r)

\* ------------------------------------------------------------------ C13
\* the reading a read endpoint answered with
answeredWith == IF result.fn = "latest" THEN result.reading ELSE result.latest

\* a read endpoint answered 200 with a reading
answeredReading ==
  /\ result.fn \in {"sensor-data", "latest"}
  /\ result.status = 200
  /\ result.fn = "sensor-data" => result.count > 0

\* C13: the presence status is computed when it is read: Connected if and
\* only if less than 180 s have passed since the latest reading, so
\* Connected after 179 s, Disconnected after 180 s and after 181 s, and
\* Disconnected when there is no reading at all.
C13_ConnectedIffFresh ==
  /\ answeredReading =>
       LET elapsed == clock - answeredWith.receivedAt
       IN  /\ result.deviceStatus = "Connected" <=> elapsed < 180 * 1000
           /\ elapsed = 179 * 1000 => result.deviceStatus = "Connected"
           /\ elapsed = 180 * 1000 => result.deviceStatus = "Disconnected"
           /\ elapsed = 181 * 1000 => result.deviceStatus = "Disconnected"
  /\ (result.fn = "sensor-data" /\ result.status = 200 /\ result.count = 0)
       => result.deviceStatus = "Disconnected"

\* GET /api/sensor-data answered Disconnected for a latest reading that is
\* exactly 180 s old
C13_Witness ==
  /\ answeredReading
  /\ result.fn = "sensor-data"
  /\ clock - answeredWith.receivedAt = 180 * 1000
  /\ result.deviceStatus = "Disconnected"

\* ------------------------------------------------------------------ C14
\* the minute of the day, in local civil time (UTC+5:45), of the instant t
localMinute(t) == ((t \div 60000) + 5 * 60 + 45) % 1440

utcMinute(t) == (t \div 60000) % 1440

\* C14: isNightTime answers night exactly for the instants whose local civil
\* time at UTC+5:45 lies in [19:00, 06:00): local 19:00 (13:15 UTC) and
\* local 05:59 (00:14 UTC) are night, local 18:59 (13:14 UTC) and local
\* 06:00 (00:15 UTC) are day, on every day called.
C14_NightIsLocal19To6 ==
  result.fn = "isNightTime" =>
    /\ result.night <=> (localMinute(clock) >= 19 * 60
                         \/ localMinute(clock) < 6 * 60)
    /\ utcMinute(clock) = 13 * 60 + 15 => result.night
    /\ utcMinute(clock) = 13 * 60 + 14 => ~result.night
    /\ utcMinute(clock) = 14 => result.night
    /\ utcMinute(clock) = 15 => ~result.night

\* isNightTime answered night for the last millisecond of local 05:59 of
\* the second day, past the UTC midnight
C14_Witness ==
  /\ result.fn = "isNightTime"
  /\ clock = 86400000 + 14 * 60000 + 59999
  /\ result.night

\* ------------------------------------------------------------------ C15
\* the reading request r stores
readingOf(r) == newReading(r, req[r].body, req[r].receivedAt)

\* C15: for a reading with soilCondition = Bad the alert decision does not
\* depend on the time of day: it is handed to the dispatcher exactly when
\* the mail service is configured and the cooldown has elapsed, the same
\* decision is taken at any other instant with the same time since the last
\* alert, and the cooldown timestamp ends as the now of the decision if the
\* mail was sent and as it was if not.
C15_SoilAlertIgnoresNight ==
  [][\A r \in Slots :
       /\ (decides(r) /\ req[r].body.soilCondition = "Bad")
          => /\ handsOver(r) <=> (emailConfigured /\ cooldownElapsed)
             /\ lastAlertTime' = lastAlertTime
             /\ \A t \in Times :
                  sendAlertOutcome(readingOf(r), t,
                                   t - (clock - lastAlertTime),
                                   emailConfigured)
                  = sendAlertOutcome(readingOf(r), clock, lastAlertTime,
                                     emailConfigured)
       /\ (sendAlertReturns(r) /\ req[r].body.soilCondition = "Bad")
          => lastAlertTime' = IF req'[r].mail = "resolved"
                              THEN req[r].now ELSE lastAlertTime]_vars

\* a Bad-soil reading decided at night was handed over, and another decided
\* by day, too
C15_Witness ==
  \E r1, r2 \in Slots :
    /\ isPost(r1) /\ isPost(r2)
    /\ req[r1].body.soilCondition = "Bad" /\ req[r2].body.soilCondition = "Bad"
    /\ handed(r1) /\ isNightTime(req[r1].now)
    /\ handed(r2) /\ ~isNightTime(req[r2].now)

\* ------------------------------------------------------------------ C16
\* the alert messages handed over in this step
handedNow == {m.alertMessage : m \in sent' \ sent}

\* C16: the message handed to the dispatcher names exactly the conditions
\* that triggered it: both if soil and light are Bad and it is not night,
\* soil if soil is Bad and light is not eligible (not Bad, or Bad at night),
\* light if only light is Bad and it is not night; a light condition
\* suppressed by night is never named.
C16_MessageNamesTriggers ==
  [][\A r \in Slots :
       handsOver(r) =>
         LET b == req'[r].body
             soil == b.soilCondition = "Bad"
             light == b.lightCondition = "Bad"
             night == isNightTime(clock)
         IN  /\ Cardinality(handedNow) = 1
             /\ "both" \in handedNow <=> (soil /\ light /\ ~night)
             /\ "soil" \in handedNow <=> (soil /\ (~light \/ night))
             /\ "light" \in handedNow <=> (~soil /\ light /\ ~night)]_vars

\* a reading with both conditions Bad was handed over at night, named as a
\* soil alert
C16_Witness ==
  \E r \in Slots :
    /\ isPost(r)
    /\ req[r].body.soilCondition = "Bad" /\ req[r].body.lightCondition = "Bad"
    /\ isNightTime(req[r].now)
    /\ handOffs(r) = {[req |-> r, at |-> req[r].now, alertMessage |-> "soil"]}

\* ------------------------------------------------------------------ C17
neitherBad(b) == b.soilCondition # "Bad" /\ b.lightCondition # "Bad"

\* C17: for an accepted reading of which neither condition is Bad (Good,
\* Okay, or absent and stored as Unknown) no alert is considered: the step
\* that stores it does not call sendAlert, hands nothing to the dispatcher
\* and leaves lastAlertTime alone, and the request never has a hand-off,
\* whatever the cooldown state and the time of day.
C17_NoBadNoAlert ==
  /\ [][\A r \in Slots :
          (decides(r) /\ neitherBad(req[r].body))
          => /\ sent' = sent
             /\ lastAlertTime' = lastAlertTime
             /\ req'[r].alert = "none"
             /\ req'[r].pc = "counting"]_vars
  /\ [](\A r \in Slots :
          (isPost(r) /\ neitherBad(req[r].body))
          => ~handed(r) /\ req[r].alert = "none" /\ req[r].mail = "none")

\* a reading with both conditions Okay was stored and answered 201 by day,
\* the mail service configured and the cooldown elapsed, with no alert
C17_Witness ==
  \E r \in Slots :
    /\ isPost(r) /\ req[r].pc = "done" /\ req[r].status = 201
    /\ req[r].body.soilCondition = "Okay"
    /\ req[r].body.lightCondition = "Okay"
    /\ stored(r)
    /\ emailConfigured /\ cooldownElapsed /\ ~isNightTime(clock)
    /\ ~handed(r) /\ req[r].alert = "none"

\* ------------------------------------------------------------------ C18
\* C18: the alert decision does not touch the Reading collection: the step
\* that stores the reading of a request adds exactly that reading, whatever
\* the alert decision taken in the same step; no other step (the end of a
\* sendMail, the count, the answer, a test email) changes the collection;
\* and every request for which sendAlert ran, whether it sent, was
\* suppressed or failed, has its reading stored.
C18_AlertLeavesStoreAlone ==
  /\ [][/\ \A r \in Slots :
             decides(r) => /\ readingOf(r) \notin readings
                           /\ readings' = readings \cup {readingOf(r)}
        /\ (\A r \in Slots : ~decides(r)) => readings' = readings]_vars
  /\ [](\A r \in Slots :
          (isPost(r) /\ (req[r].alert # "none" \/ req[r].status = 201))
          => stored(r))

\* a Bad reading whose sendMail was rejected and a Bad reading whose alert
\* was suppressed were both answered 201, and the store holds both
C18_Witness ==
  \E r1, r2 \in Slots :
    /\ r1 # r2
    /\ isPost(r1) /\ isPost(r2)
    /\ req[r1].mail = "rejected" /\ req[r1].status = 201
    /\ req[r2].alert \in {"cooldown", "skip", "notConfigured"}
    /\ req[r2].status = 201
    /\ Cardinality(readings) = 2

\* ------------------------------------------------------------------ C19
\* C19: a submission that carries a deviceId and both sensor values is
\* accepted and stored (unless the store itself fails), also when a value is
\* 0 and also when a condition is absent: it is never answered 400.
C19_RequiredFieldsSuffice ==
  \A r \in Slots :
    ( /\ req[r].kind \in {"post", "sensor"}
      /\ req[r].pc = "done"
      /\ missingFields(req[r].body) = {} )
    => /\ req[r].status # 400
       /\ req[r].error # "store" => persisted(r) # {}

\* ------------------------------------------------------------------ C20
\* the stored readings a call of GET /api/readings/latest asks about: all of
\* them, or those of the deviceId given
askedFor ==
  IF call.deviceId = "undefined" THEN readings
  ELSE {x \in readings : x.deviceId = call.deviceId}

\* C20: GET /api/readings/latest answers with one stored reading that has
\* the greatest receivedAt among all readings, or among those of the
\* deviceId given, never with a reading of another device, and answers 404
\* exactly when there is no such reading (a failing store apart).
C20_LatestIsNewestOfDevice ==
  result.fn = "latest" =>
    /\ result.status \in {200, 404, 500}
    /\ result.status = 404 => askedFor = {}
    /\ result.status = 200 =>
         /\ result.reading \in askedFor
         /\ \A y \in askedFor : y.receivedAt <= result.reading.receivedAt
    /\ askedFor = {} => result.status \in {404, 500}

\* asked for the latest reading of D1, the endpoint answered with the
\* reading of D1 although the store holds a newer reading of D2
C20_Witness ==
  /\ result.fn = "latest" /\ result.status = 200
  /\ call.deviceId = "D1"
  /\ result.reading.deviceId = "D1"
  /\ \E y \in readings :
       y.deviceId = "D2" /\ y.receivedAt > result.reading.receivedAt

\* ------------------------------------------------------------------ C21
\* r1 and r2 are POST /api/readings requests served one after the other,
\* with no other request in flight meanwhile and none received since
consecutive(r1, r2) ==
  /\ r2 = r1 + 1
  /\ isPost(r1) /\ isPost(r2)
  /\ req[r1].afterOthers /\ req[r2].afterOthers
  /\ \A s \in Slots : s > r2 => req[s].pc = "new"

\* C21: the cooldown comparison is strict.  With the mail service
\* configured, an eligible reading is suppressed by the cooldown if and only
\* if now - lastAlertTime < ALERT_COOLDOWN; a reading decided exactly
\* ALERT_COOLDOWN after the last alert that was sent is handed over, and one
\* decided one millisecond earlier is suppressed.
C21_CooldownIsStrict ==
  /\ [][\A r \in Slots :
          ( /\ decides(r)
            /\ eligibleAt(req[r].body, clock)
            /\ emailConfigured )
          => /\ handsOver(r) <=> ~(clock - lastAlertTime < ALERT_COOLDOWN)
             /\ req'[r].alert = "cooldown"
                <=> clock - lastAlertTime < ALERT_COOLDOWN
             /\ clock - lastAlertTime = ALERT_COOLDOWN => handsOver(r)
             /\ clock - lastAlertTime = ALERT_COOLDOWN - 1
                => ~handsOver(r)]_vars
  /\ [](\A r1, r2 \in Slots :
          ( /\ consecutive(r1, r2)
            /\ req[r1].mail = "resolved"
            /\ req[r2].now # NoTime
            /\ eligibleAt(req[r2].body, req[r2].now) )
          => /\ req[r2].now - req[r1].now = ALERT_COOLDOWN => handed(r2)
             /\ req[r2].now - req[r1].now = ALERT_COOLDOWN - 1
                => ~handed(r2) /\ req[r2].alert = "cooldown")

\* an alert was sent, and the next Bad-soil reading, decided one millisecond
\* short of the cooldown window later, was suppressed by the cooldown
C21_Witness ==
  \E r1, r2 \in Slots :
    /\ consecutive(r1, r2)
    /\ req[r1].mail = "resolved"
    /\ req[r2].body.soilCondition = "Bad"
    /\ req[r2].now - req[r1].now = ALERT_COOLDOWN - 1
    /\ req[r2].alert = "cooldown"
    /\ ~handed(r2) /\ stored(r2)

\* ------------------------------------------------------------------ C22
\* the step in which the handler of POST /api/sensor-data takes the soil
\* check, and the step in which it takes the light check
soilChecked(r) ==
  /\ isSensor(r) /\ req[r].pc = "updating"
  /\ req'[r].pc \in {"mailingSoil", "mailingLight", "done"}
  /\ req'[r].status # 500

lightChecked(r) ==
  /\ isSensor(r)
  /\ req[r].pc \in {"updating", "mailingSoil"}
  /\ req'[r].pc \in {"mailingLight", "done"}
  /\ req'[r].status # 500

\* the kinds of alert handed to the dispatcher in this step for r
handedKinds(r) == {m.alertMessage : m \in {x \in sent' \ sent : x.req = r}}

\* C22: in the variant with one cooldown per kind of alert the two are
\* independent.  The soil alert is handed over exactly when soilCondition is
\* Bad and EMAIL_COOLDOWN has passed since lastEmailSent.soil, whatever
\* lastEmailSent.light is, and its end writes lastEmailSent.soil only; the
\* same holds for light with lastEmailSent.light; no other step writes
\* lastEmailSent.
C22_CooldownsPerKindIndependent ==
  [][/\ \A r \in Slots :
          /\ soilChecked(r) =>
               ("soil" \in handedKinds(r)
                <=> /\ req[r].body.soilCondition = "Bad"
                    /\ clock - lastEmailSent.soil >= EMAIL_COOLDOWN)
          /\ lightChecked(r) =>
               ("light" \in handedKinds(r)
                <=> /\ req[r].body.lightCondition = "Bad"
                    /\ clock - lastEmailSent.light >= EMAIL_COOLDOWN)
          /\ (req[r].pc = "mailingSoil" /\ req'[r].pc # "mailingSoil") =>
               /\ lastEmailSent'.light = lastEmailSent.light
               /\ lastEmailSent'.soil = IF req'[r].mail = "resolved"
                                        THEN req[r].now
                                        ELSE lastEmailSent.soil
          /\ (req[r].pc = "mailingLight" /\ req'[r].pc # "mailingLight") =>
               /\ lastEmailSent'.soil = lastEmailSent.soil
               /\ lastEmailSent'.light = IF req'[r].mail = "resolved"
                                         THEN req[r].now
                                         ELSE lastEmailSent.light
     /\ (\A r \in Slots : req[r].pc \notin {"mailingSoil", "mailingLight"})
          => lastEmailSent' = lastEmailSent]_vars

\* a reading with both conditions Bad had its soil alert sent and then, at
\* the same instant, its light alert handed over and sent as well
C22_Witness ==
  \E r \in Slots :
    /\ isSensor(r) /\ req[r].pc = "done" /\ req[r].status = 200
    /\ {m.alertMessage : m \in handOffs(r)} = {"soil", "light"}
    /\ lastEmailSent.soil = req[r].now
    /\ lastEmailSent.light = req[r].now

\* ------------------------------------------------------------------ C23
\* the step is a restart of the process (seen whenever a request had been
\* received before it)
restarts == \E r \in Slots : req'[r].beforeRestart /\ ~req[r].beforeRestart

\* an alert has been sent since the process last started
sentSinceStart ==
  \E s \in Slots : ~req[s].beforeRestart /\ req[s].mail = "resolved"

\* C23: the cooldown state does not survive a restart.  A restart leaves
\* lastAlertTime = 0; whatever lastAlertTime holds afterwards was written
\* by an alert sent since the restart; so the first eligible Bad reading
\* decided after the restart (mail service configured) is handed over, also
\* when an alert was sent less than ALERT_COOLDOWN before the restart.
C23_RestartResetsCooldown ==
  /\ [][/\ restarts => lastAlertTime' = 0
        /\ \A r \in Slots :
             ( /\ decides(r)
               /\ eligibleAt(req[r].body, clock)
               /\ emailConfigured
               /\ ~sentSinceStart )
             => handsOver(r)]_vars
  /\ [](lastAlertTime # 0 =>
          \E s \in Slots :
            /\ ~req[s].beforeRestart /\ req[s].mail = "resolved"
            /\ lastAlertTime = req[s].now)

\* an alert was sent, the process restarted, and a Bad reading decided at
\* the same instant as that alert was handed over
C23_Witness ==
  \E r1, r2 \in Slots :
    /\ req[r1].beforeRestart /\ req[r1].mail = "resolved"
    /\ ~req[r2].beforeRestart /\ isPost(r2) /\ handed(r2)
    /\ req[r2].now - req[r1].now < ALERT_COOLDOWN
    /\ req[r2].now >= req[r1].now

\* ---------------------------------------------------------------- C24
\* request r of GET /api/device/status is answered 200 in this step
statusAnswered(r) ==
  /\ req[r].kind = "status" /\ req[r].pc # "done"
  /\ req'[r].pc = "done" /\ req'[r].status = 200

\* the stored records of the device request r is about
recordsOf(r, ds) == {x \in ds : x.deviceId = req[r].body.deviceId}

\* the record of device d: online, last seen at t
onlineSince(d, t) == [deviceId |-> d, status |-> "online", lastSeen |-> t]

\* the last instant of the behaviours of StatusSpec
lastInstant == CHOOSE t \in StatusTimes : \A u \in StatusTimes : u <= t

\* a record is online whose lastSeen will be more than 30 seconds old
\* within these behaviours
someOnlineTooLong ==
  \E x \in deviceStatus :
    x.status = "online" /\ x.lastSeen + thirtySeconds < lastInstant

\* C24: in the stored-status variant GET /api/device/status never answers
\* 'online' for a device whose stored lastSeen is more than 30 seconds old;
\* the update of an accepted reading stores the device as 'online' with
\* lastSeen the instant the handler issued it; and, when time passes and the
\* 30-second task keeps running, the records that are 'online' are
\* eventually 'offline' or replaced by the record of a further reading.
C24_OfflineAfterThirtySeconds ==
  /\ [][\A r \in Slots :
          statusAnswered(r) /\ req'[r].device.status = "online"
            => \A x \in recordsOf(r, deviceStatus') :
                 clock' - x.lastSeen <= thirtySeconds]_vars
  /\ [][\A r \in Slots :
          (isSensor(r) /\ req[r].pc = "updating"
             /\ req'[r].pc # "updating" /\ req'[r].status # 500)
            => /\ onlineSince(req[r].body.deviceId, req[r].lastSeen)
                    \in deviceStatus'
               /\ req[r].lastSeen >= req[r].receivedAt
               /\ req[r].lastSeen <= clock']_vars
  /\ someOnlineTooLong ~> ~someOnlineTooLong

\* C24 witness: a device that was stored online by an accepted reading and
\* has sent nothing for more than 30 seconds is stored offline, and a GET
\* /api/device/status for it was answered 'offline' after that time.
C24_Witness ==
  /\ \E x \in deviceStatus :
       /\ x.deviceId = "D1" /\ x.status = "offline"
       /\ clock - x.lastSeen > thirtySeconds
  /\ \E r \in Slots :
       /\ req[r].kind = "status" /\ req[r].pc = "done" /\ req[r].status = 200
       /\ req[r].body.deviceId = "D1"
       /\ req[r].device.status = "offline"
       /\ req[r].now - req[r].device.lastSeen > thirtySeconds
  /\ \E r \in Slots :
       isSensor(r) /\ req[r].pc = "done" /\ req[r].status = 200

\* ---------------------------------------------------------------- C25
\* request r is a GET /api/test-email received in this step
testReceived(r) == req[r].pc = "new" /\ req'[r].kind = "test"

\* no request but r is in flight, and none was received after r
alone(r) ==
  /\ req[r].afterOthers
  /\ \A s \in Slots \ {r} : ~inFlight(req[s])
  /\ \A s \in Slots : s > r => req[s].pc = "new"

\* C25: with the mail service configured and no other request in flight,
\* GET /api/test-email hands its test alert to the dispatcher whatever the
\* value of lastAlertTime, and in the step that completes the request
\* lastAlertTime is again the value it had before the request, whether the
\* sendMail resolved or rejected.
C25_TestEmailRestoresCooldown ==
  /\ [][\A r \in Slots :
          (testReceived(r) /\ emailConfigured /\ othersIdle(r))
            => handed(r)']_vars
  /\ [][\A r \in Slots :
          (req[r].kind = "test" /\ mailEnds(r) /\ alone(r))
            => lastAlertTime' = req[r].oldCooldown]_vars

\* ---------------------------------------------------------------- C26
\* the save of r fails in this step
saveFails(r) ==
  isPost(r) /\ req[r].pc = "saving" /\ req'[r].pc = "done"

\* C26: within one POST /api/readings the reading is stored when the alert
\* decision is taken, and the answer comes in a later step than the
\* decision; a message is handed to the dispatcher only for a stored
\* reading; when the save fails the request is answered 500, nothing is
\* handed to the dispatcher and lastAlertTime keeps its value.
C26_StoreThenDecideThenAnswer ==
  /\ [](\A r \in Slots :
          isPost(r) =>
            /\ (handed(r) \/ req[r].alert # "none" \/ req[r].status = 201)
                 => stored(r)
            /\ (req[r].pc = "done" /\ ~stored(r)) => req[r].status \in {400, 500})
  /\ [][\A r \in Slots :
          /\ decides(r) => (stored(r)' /\ req'[r].status = 0)
          /\ (isPost(r) /\ req[r].status = 0 /\ req'[r].status = 201)
               => (~decides(r) /\ req[r].pc = "counting" /\ stored(r))
          /\ saveFails(r)
               => /\ req'[r].status = 500
                  /\ ~stored(r)'
                  /\ sent' = sent
                  /\ lastAlertTime' = lastAlertTime]_vars

\* C26 witness: a Bad reading was stored, handed to the dispatcher and
\* answered 201, and the save of another Bad reading failed after the
\* window had elapsed: it is answered 500, not stored, nothing was handed
\* over for it and lastAlertTime is still the time of the first alert.
C26_Witness ==
  \E r, s \in Slots :
    /\ isPost(r) /\ stored(r) /\ handed(r) /\ req[r].status = 201
    /\ req[r].mail = "resolved"
    /\ isPost(s) /\ req[s].pc = "done" /\ req[s].status = 500
    /\ req[s].error = "store" /\ missingFields(req[s].body) = {}
    /\ alertNeeded(req[s].body)
    /\ ~stored(s) /\ ~handed(s)
    /\ clock - lastAlertTime >= ALERT_COOLDOWN
    /\ lastAlertTime = req[r].now

\* ---------------------------------------------------------------- C27
\* C27: lastAlertTime never moves backwards under any interleaving of POST
\* /api/readings requests with a non-decreasing clock: every step that
\* writes it stores a value greater than or equal to the value it replaces
\* (stated for the behaviours without GET /api/test-email, whose
\* "lastAlertTime = 0" moves it back by itself).
C27_CooldownNeverMovesBack ==
  [][noTestRequest' => lastAlertTime' >= lastAlertTime]_vars

\* ---------------------------------------------------------------- C28
\* a GET /api/test-email is awaiting its sendMail
testInFlight == \E t \in Slots : req[t].kind = "test" /\ req[t].pc = "mailing"

\* the alert of reading p was delivered, at most a cooldown window ago
deliveredInWindow(p) ==
  /\ isPost(p) /\ handed(p) /\ req[p].mail = "resolved"
  /\ clock - req[p].now < ALERT_COOLDOWN

\* C28: GET /api/test-email does not disturb real alerting: a reading whose
\* alert decision is taken while a test email is in flight is not handed to
\* the dispatcher if the alert of another reading was delivered within the
\* cooldown window; and a lastAlertTime written by the alert of a reading
\* while the test request was in flight is still in place after the step in
\* which the test request restores the value it saved.
C28_TestEmailLeavesAlertingAlone ==
  /\ [][\A r \in Slots :
          (decides(r) /\ testInFlight
             /\ \E p \in Slots \ {r} : deliveredInWindow(p))
            => ~handed(r)']_vars
  /\ [][\A t \in Slots :
          (req[t].kind = "test" /\ mailEnds(t)
             /\ \E p \in Slots :
                  /\ isPost(p) /\ req[p].mail = "resolved"
                  /\ req[p].now >= req[t].receivedAt
                  /\ lastAlertTime = req[p].now)
            => lastAlertTime' = lastAlertTime]_vars

\* ---------------------------------------------------------------- C29
\* the decision procedure as specified: the Bad check, eligibility with the
\* light condition suppressed at night, then the cooldown window
specifiedDecision(b, now, last) ==
  LET eligibleSoil == b.soilCondition = "Bad"
      eligibleLight == b.lightCondition = "Bad" /\ ~isNightTime(now)
  IN
  IF b.soilCondition # "Bad" /\ b.lightCondition # "Bad" THEN "no alert"
  ELSE IF ~eligibleSoil /\ ~eligibleLight THEN "no alert"
  ELSE IF now - last < ALERT_COOLDOWN THEN "cooldown"
  ELSE "dispatch"

\* the cooldown timestamp the specified procedure leaves: now when it
\* dispatches, whatever the dispatcher does, and the old value otherwise
specifiedTimestamp(b, now, last) ==
  IF specifiedDecision(b, now, last) = "dispatch" THEN now ELSE last

\* C29: with the mail service configured, the code (cooldown first, then
\* night and eligibility) and the specified procedure (Bad check,
\* eligibility, then cooldown) agree for every reading, time and cooldown
\* state: a reading is handed to the dispatcher exactly when the specified
\* procedure dispatches, a decision that hands nothing over leaves
\* lastAlertTime as the specified procedure does, and when the sendMail of
\* a hand-off has ended lastAlertTime is the now of that decision, the
\* timestamp the specified procedure leaves when it dispatches (no test
\* email being involved).
C29_CheckOrderEquivalent ==
  [][\A r \in Slots :
       /\ (decides(r) /\ emailConfigured)
            => /\ handed(r)' <=>
                    specifiedDecision(req[r].body, clock, lastAlertTime)
                      = "dispatch"
               /\ ~handed(r)' =>
                    lastAlertTime' =
                      specifiedTimestamp(req[r].body, clock, lastAlertTime)
       /\ (isPost(r) /\ mailEnds(r) /\ noTestRequest)
            => lastAlertTime' = req[r].now]_vars

\* ---------------------------------------------------------------- C30
\* C30: when the mail service is not configured nothing is ever handed to
\* the dispatcher and lastAlertTime keeps its initial value, whatever the
\* readings; the sendAlert called for a Bad reading returns at once, the
\* reading is stored, and the request is answered 201 unless the count of
\* readings fails.
C30_NotConfiguredSendsNothing ==
  /\ [](~emailConfigured => (sent = {} /\ lastAlertTime = 0))
  /\ [](\A r \in Slots :
          (~emailConfigured /\ isPost(r) /\ req[r].pc = "done"
             /\ req[r].alert = "notConfigured")
            => (stored(r) /\ (req[r].status = 201 \/ req[r].error = "store")))
  /\ [][\A r \in Slots :
          (decides(r) /\ ~emailConfigured /\ alertNeeded(req[r].body))
            => /\ req'[r].alert = "notConfigured"
               /\ req'[r].pc = "counting"
               /\ stored(r)']_vars

\* C30 witness: without mail service a reading with Bad soil, taken with the
\* cooldown window elapsed, is stored and answered 201, and nothing was
\* handed to the dispatcher.
C30_Witness ==
  /\ ~emailConfigured
  /\ \E r \in Slots :
       /\ isPost(r) /\ req[r].body.soilCondition = "Bad"
       /\ req[r].alert = "notConfigured"
       /\ stored(r) /\ req[r].status = 201
       /\ ~handed(r)
  /\ cooldownElapsed
====
